---- MODULE Spec2Model ----
(***************************************************************************)
(* Fail2Scan daemon: the scan queue with its persisted state, the log      *)
(* tail and the startup of the process, as written in src/bin/daemon.js    *)
(* ("daemon") and in src/unnamed/part_000 ("part000").  The two files      *)
(* differ in ScanQueue (tmpCache, the extra setImmediate in _next), in     *)
(* performScan (the try/catch around the creation of the output            *)
(* directory) and in the fs.watch callback (the stat of a missing file);   *)
(* `variant' selects the file.                                             *)
(*                                                                         *)
(* Three specifications share the variables: Spec / FairSpec (ScanQueue),  *)
(* TailSpec (FileTail and the writer of the log) and StartupSpec (the      *)
(* module-level code up to the end of the prerequisite check).             *)
(***************************************************************************)
EXTENDS Integers, Sequences, FiniteSets, TLC

Variants == {"daemon", "part000"}
Addr == {"a1", "a2"}

RESCAN_TTL_SEC == 3600
QUICK_RETRY_SEC == 60

MaxConcurrency == 2
MaxPushes == 3
MaxFairPushes == 2
MaxTicks == 1
MaxRestarts == 1
MaxWrites == 3
MaxPasses == 2
MaxStartPushes == 1

VARIABLES
  variant,      \* which source file runs
  concurrency,  \* ScanQueue.concurrency
  now,          \* Math.floor(Date.now()/1000)
  State,        \* the STATE object: seen (= ScanQueue.set, insertion ordered), retryAfter
  tmpCache,     \* ScanQueue.tmpCache (daemon only)
  q,            \* ScanQueue.q
  running,      \* ScanQueue.running
  jobs,         \* the async bodies started by _next that have not run their finally
  immediates,   \* number of setImmediate(() => this._next()) callbacks not yet run
  stateFile,    \* content of STATE_FILE
  lastOp,       \* history: the last queue operation and what it decided
  hist,         \* history: per address, whether a scan of it has completed
  nPush, nTick, nRestart,
  \* ---- FileTail and the watched log file ----
  logFile,      \* the file at LOG_PATH: exists, ino, data (bytes)
  pos,          \* FileTail.pos
  inode,        \* FileTail.inode (Null for null)
  buf,          \* FileTail.buf
  watch,        \* FileTail.watch: "open", "closed" or "none" (fs.watch threw)
  notifs,       \* change notifications fs.watch has not yet delivered
  passes,       \* _readNew invocations suspended in their for-await loop
  delivered,    \* the lines passed to onLine, in call order
  startPos,     \* history: the offset recorded by start()
  disturbed,    \* history: "no", "truncated" or "rotated"
  nWrite,       \* history: number of changes made to the log file
  \* ---- the module-level code: prerequisites and main startup ----
  mainPc,       \* position of the synchronous module-level code
  checkPc,      \* index in tools of the which() that checkTools awaits (0: not started)
  exitCode,     \* status passed to process.exit, NotExited while running
  toolsPresent, \* the binaries `which' finds
  singleIp,     \* SINGLE_IP (--scan-ip), NoIp for null
  logStatted,   \* history: fs.statSync(LOG_PATH) has been called
  \* ---- shutdown ----
  sigPc,        \* "none", or "signalled" once shutdown() has been called
  msSince,      \* Date.now() - start at the last poll of wait()
  \* ---- one call of performScan ----
  psPc,         \* position in performScan
  fsTree,       \* the directories that exist
  fsPerm,       \* whether directories can be created under OUT_ROOT, /tmp
  toolOut,      \* outcome of running each tool
  invoked,      \* the tools run so far, in order
  summaryCmds,  \* summary.cmds
  artifacts,    \* files written, as <<directory, name>>
  outDir,       \* the local outDir of performScan
  \* ---- extractIpFromLine ----
  logLine,      \* the argument
  extracted     \* whether the function was applied, and what it returned

qvars == <<variant, concurrency, now, State, tmpCache, q, running, jobs,
           immediates, stateFile, lastOp, hist, nPush, nTick, nRestart>>

tvars == <<logFile, pos, inode, buf, watch, notifs, passes, delivered,
           startPos, disturbed, nWrite>>

svars == <<mainPc, checkPc, exitCode, toolsPresent, singleIp, logStatted>>

hvars == <<sigPc, msSince>>

pvars == <<psPc, fsTree, fsPerm, toolOut, invoked, summaryCmds, artifacts,
           outDir>>

evars == <<logLine, extracted>>

ovars == <<hvars, pvars, evars>>

vars == <<qvars, tvars, svars, ovars>>

(* ---------------------------- JS Set and object ------------------------ *)
\* A JS Set keeps insertion order; it is modelled as a duplicate-free sequence.
SetHas(s, x) == \E i \in 1..Len(s) : s[i] = x
SetAdd(s, x) == IF SetHas(s, x) THEN s ELSE Append(s, x)
SetDelete(s, x) == SelectSeq(s, LAMBDA y : y # x)
SetElems(s) == {s[i] : i \in 1..Len(s)}

RECURSIVE NewSet(_)
\* new Set(array): first occurrences, in order
NewSet(arr) ==
  IF arr = <<>> THEN <<>>
  ELSE LET r == NewSet(SubSeq(arr, 1, Len(arr) - 1))
       IN SetAdd(r, arr[Len(arr)])

EmptyMap == [x \in {} |-> 0]
MapPut(m, k, v) == [x \in (DOMAIN m) \cup {k} |-> IF x = k THEN v ELSE m[x]]
\* State.retryAfter[ip] || 0
RetryOf(m, ip) == IF ip \in DOMAIN m THEN m[ip] ELSE 0

(* ------------------------------ persistence ---------------------------- *)
NoFile == [kind |-> "missing"]

\* the value null where a retry-after map is expected: no map of addresses,
\* told apart from every such map by a key that no address is
JsNull == [x \in {"null"} |-> 0]

\* kinds of state file: "missing"; "corrupt" (JSON.parse throws); "jsonnull"
\* (the text null: j.seen throws); "scalar" (a number or string: both fields
\* undefined); "json" (seen an array, retryAfter an object); "json_badseen"
\* (seen not an array); "json_badretry" (retryAfter absent or not of type
\* object); "json_nullretry" (retryAfter null, whose typeof is 'object')
loadState(f) ==
  IF f.kind = "json"
  THEN [seen |-> NewSet(f.seen), retryAfter |-> f.retryAfter]
  ELSE IF f.kind = "json_badseen"
  THEN [seen |-> <<>>, retryAfter |-> f.retryAfter]
  ELSE IF f.kind = "json_badretry"
  THEN [seen |-> NewSet(f.seen), retryAfter |-> EmptyMap]
  ELSE IF f.kind = "json_nullretry"
  THEN [seen |-> NewSet(f.seen), retryAfter |-> JsNull]
  ELSE [seen |-> <<>>, retryAfter |-> EmptyMap]

\* JSON.stringify({seen: Array.from(state.seen), retryAfter: state.retryAfter})
saveState(state) ==
  [kind |-> "json", seen |-> state.seen, retryAfter |-> state.retryAfter]

(* ------------------------------- ScanQueue ----------------------------- *)
\* The mutable objects a queue operation touches, as one record.
QS == [State |-> State, tmpCache |-> tmpCache, q |-> q, running |-> running,
       jobs |-> jobs, immediates |-> immediates, stateFile |-> stateFile]

\* performScan up to its first await.  mk is the outcome of creating the
\* output directory: "ok", or "fail" when neither the primary nor the
\* fallback root can be created.  part000 catches the failure, records the
\* quick retry and returns; daemon lets it throw into _next's catch.
performScanEnter(s, ip, t, mk) ==
  IF mk = "ok"
  THEN [s EXCEPT !.jobs = Append(@, [ip |-> ip, pc |-> "run"])]
  ELSE IF variant = "part000"
  THEN LET st == [s.State EXCEPT !.retryAfter = MapPut(@, ip, t + QUICK_RETRY_SEC)]
       IN [s EXCEPT !.State = st, !.stateFile = saveState(st),
                    !.jobs = Append(@, [ip |-> ip, pc |-> "fin"])]
  ELSE [s EXCEPT !.jobs = Append(@, [ip |-> ip, pc |-> "fin"])]

\* _next without its capacity test
ScanQueue_next_noLimit(s, t, mk) ==
  IF s.q = <<>> THEN s
  ELSE LET ip == Head(s.q)
           s1 == [s EXCEPT !.q = Tail(@), !.running = @ + 1]
           s2 == performScanEnter(s1, ip, t, mk)
       IN IF variant = "daemon" THEN [s2 EXCEPT !.immediates = @ + 1] ELSE s2

ScanQueue_next(s, t, mk) ==
  IF s.running >= concurrency THEN s
  ELSE IF s.q = <<>> THEN s
  ELSE LET ip == Head(s.q)
           s1 == [s EXCEPT !.q = Tail(@), !.running = @ + 1]
           s2 == performScanEnter(s1, ip, t, mk)
       IN IF variant = "daemon" THEN [s2 EXCEPT !.immediates = @ + 1] ELSE s2

\* the early return of push, with the retry-after test forgotten
pushRejects_noTTL(s, ip, t) ==
  \/ SetHas(s.State.seen, ip)
  \/ variant = "daemon" /\ ip \in s.tmpCache

\* the early return of push
pushRejects(s, ip, t) ==
  \/ SetHas(s.State.seen, ip) /\ RetryOf(s.State.retryAfter, ip) > t
  \/ variant = "daemon" /\ ip \in s.tmpCache

\* an insertion at the head of the pending list
enqueue_front(sq, ip) == <<ip>> \o sq
\* this.q.push(ip)
enqueue(sq, ip) == Append(sq, ip)

\* a push that does not call _next
ScanQueue_push_noDispatch(s, ip, t, mk) ==
  IF pushRejects(s, ip, t) THEN s
  ELSE LET seen0 == IF SetHas(s.State.seen, ip) /\ RetryOf(s.State.retryAfter, ip) <= t
                    THEN SetDelete(s.State.seen, ip) ELSE s.State.seen
           st == [s.State EXCEPT !.seen = SetAdd(seen0, ip)]
           s1 == [s EXCEPT !.State = st, !.stateFile = saveState(st),
                           !.q = enqueue(@, ip),
                           !.tmpCache = IF variant = "daemon" THEN @ \cup {ip} ELSE @]
       IN s1
ScanQueue_push(s, ip, t, mk) ==
  IF pushRejects(s, ip, t) THEN s
  ELSE LET seen0 == IF SetHas(s.State.seen, ip) /\ RetryOf(s.State.retryAfter, ip) <= t
                    THEN SetDelete(s.State.seen, ip) ELSE s.State.seen
           st == [s.State EXCEPT !.seen = SetAdd(seen0, ip)]
           s1 == [s EXCEPT !.State = st, !.stateFile = saveState(st),
                           !.q = enqueue(@, ip),
                           !.tmpCache = IF variant = "daemon" THEN @ \cup {ip} ELSE @]
       IN ScanQueue_next(s1, t, mk)

RemoveAt(sq, i) == SubSeq(sq, 1, i - 1) \o SubSeq(sq, i + 1, Len(sq))

\* a finally block that forgets the retry-after
ScanQueue_finally_noRetry(s, i, t) ==
  LET ip == s.jobs[i].ip
      st1 == s.State
      file == saveState(st1)
      st2 == [st1 EXCEPT !.seen = SetDelete(@, ip)]
  IN [s EXCEPT !.State = st2, !.stateFile = file,
               !.tmpCache = IF variant = "daemon" THEN @ \ {ip} ELSE @,
               !.running = @ - 1,
               !.immediates = @ + 1,
               !.jobs = RemoveAt(@, i)]

\* the finally block of the async body started by _next, for jobs[i]
ScanQueue_finally(s, i, t) ==
  LET ip == s.jobs[i].ip
      st1 == [s.State EXCEPT !.retryAfter = MapPut(@, ip, t + RESCAN_TTL_SEC)]
      file == saveState(st1)
      st2 == [st1 EXCEPT !.seen = SetDelete(@, ip)]
  IN [s EXCEPT !.State = st2, !.stateFile = file,
               !.tmpCache = IF variant = "daemon" THEN @ \ {ip} ELSE @,
               !.running = @ - 1,
               !.immediates = @ + 1,
               !.jobs = RemoveAt(@, i)]

(* ------------------------------ history -------------------------------- *)
Active(s, ip) ==
  \/ \E i \in 1..Len(s.q) : s.q[i] = ip
  \/ \E i \in 1..Len(s.jobs) : s.jobs[i].ip = ip

NoOp ==
  [op |-> "none", ip |-> "-", admitted |-> FALSE, active |-> FALSE,
   early |-> FALSE, mkfail |-> FALSE]

Assign(s) ==
  /\ State' = s.State
  /\ tmpCache' = s.tmpCache
  /\ q' = s.q
  /\ running' = s.running
  /\ jobs' = s.jobs
  /\ immediates' = s.immediates
  /\ stateFile' = s.stateFile

(* ------------------------- module-level code -------------------------- *)
\* const tools = ['nmap', 'dig', 'whois', 'which']
tools == <<"nmap", "dig", "whois", "which">>
NotExited == -1
PREREQ_EXIT == 2
NoIp == "null"

\* the next index of the for loop of checkTools that awaits which(t): the
\* entry 'which' is skipped by `continue'; Len(tools) + 1 when the loop is over
RECURSIVE NextCheck(_)
NextCheck(i) ==
  IF i > Len(tools) THEN Len(tools) + 1
  ELSE IF tools[i] = "which" THEN NextCheck(i + 1)
  ELSE i

CheckDone == checkPc = Len(tools) + 1

\* startup is over and every prerequisite was found: the state in which the
\* specifications of the queue and of the tail run
Started ==
  /\ mainPc = "done" /\ checkPc = Len(tools) + 1 /\ exitCode = NotExited
  /\ toolsPresent = {"nmap", "dig", "whois"} /\ singleIp = NoIp

\* no shutdown signal has been received
NoSignal == sigPc = "none" /\ msSince = 0

ToolNames == {"nmap", "dig", "whois"}

\* performScan is not being followed step by step
PerformIdle ==
  /\ psPc = "idle" /\ fsTree = {} /\ fsPerm = [primary |-> TRUE, fallback |-> TRUE]
  /\ toolOut = [t \in ToolNames |-> "exit0"] /\ invoked = <<>>
  /\ summaryCmds = EmptyMap /\ artifacts = {} /\ outDir = <<>>

\* extractIpFromLine is not being applied
ExtractIdle == logLine = <<>> /\ extracted = [done |-> FALSE, ip |-> <<>>]

OthersIdle == NoSignal /\ PerformIdle /\ ExtractIdle

(* -------------------------------- FileTail ----------------------------- *)
Null == 0    \* null (inode numbers are positive)
NL == 0      \* '\n'
SP == -1     \* a whitespace character other than '\n'

Min(a, b) == IF a < b THEN a ELSE b

\* the queue is not running in the specifications of the tail, and the tail
\* is not running in those of the queue
TailIdle ==
  /\ logFile = [exists |-> FALSE, ino |-> 0, data |-> <<>>]
  /\ pos = 0 /\ inode = Null /\ buf = <<>> /\ watch = "none"
  /\ notifs = 0 /\ passes = <<>> /\ delivered = <<>>
  /\ startPos = 0 /\ disturbed = "no" /\ nWrite = 0

QueueIdle ==
  /\ concurrency = 1 /\ now = 1
  /\ stateFile = NoFile /\ State = loadState(NoFile)
  /\ tmpCache = {} /\ q = <<>> /\ running = 0 /\ jobs = <<>> /\ immediates = 0
  /\ lastOp = NoOp /\ hist = [a \in Addr |-> "none"]
  /\ nPush = 0 /\ nTick = 0 /\ nRestart = 0

RECURSIVE TrimStart(_)
TrimStart(l) == IF l # <<>> /\ Head(l) = SP THEN TrimStart(Tail(l)) ELSE l
RECURSIVE TrimEnd(_)
TrimEnd(l) ==
  IF l # <<>> /\ l[Len(l)] = SP THEN TrimEnd(SubSeq(l, 1, Len(l) - 1)) ELSE l
\* String.prototype.trim
Trim(l) == TrimEnd(TrimStart(l))

\* buf.indexOf('\n'), 1-based; 0 when there is none
IndexOfNL(b) ==
  IF \E i \in 1..Len(b) : b[i] = NL
  THEN CHOOSE i \in 1..Len(b) : b[i] = NL /\ \A j \in 1..(i - 1) : b[j] # NL
  ELSE 0

RECURSIVE SplitLines(_, _)
\* the while loop of _readNew: the complete lines of b go to onLine unless
\* blank, the unterminated rest stays in buf
SplitLines(b, out) ==
  LET idx == IndexOfNL(b)
  IN IF idx = 0 THEN [buf |-> b, lines |-> out]
     ELSE LET line == SubSeq(b, 1, idx - 1)
          IN SplitLines(SubSeq(b, idx + 1, Len(b)),
                        IF Trim(line) # <<>> THEN Append(out, line) ELSE out)

\* _readNew up to the for-await: the truncation test, the early return and
\* the creation of the stream over [pos, st.size - 1]
readNewEnter(p, size, ps) ==
  LET p1 == IF size < p THEN 0 ELSE p
  IN [pos |-> p1,
      passes |-> IF size = p1 THEN ps
                 ELSE Append(ps, [from |-> p1, size |-> size, pc |-> "open",
                                  chunk |-> <<>>])]

InitContents == {<<>>, <<9, NL>>, <<9, NL, 8>>}

\* fs.statSync(this.path).size as start() sees it (0 for a missing file)
SizeAtStart(f) == IF f.exists THEN Len(f.data) ELSE 0

\* a start() that leaves the offset at the beginning of the file
FileTail_start_fromZero(f) ==
  IF f.exists
  THEN LET r == readNewEnter(0, Len(f.data), <<>>)
       IN [inode |-> f.ino, pos |-> r.pos, watch |-> "open", passes |-> r.passes]
  ELSE [inode |-> Null, pos |-> 0, watch |-> "none", passes |-> <<>>]

\* FileTail.start(): the fields after statSync, _watch() and the first
\* _readNew(), whose statSync throws when the file is missing
FileTail_start(f) ==
  IF f.exists
  THEN LET r == readNewEnter(Len(f.data), Len(f.data), <<>>)
       IN [inode |-> f.ino, pos |-> r.pos, watch |-> "open", passes |-> r.passes]
  ELSE [inode |-> Null, pos |-> 0, watch |-> "none", passes |-> <<>>]

\* new FileTail(LOG_PATH, onLine): start() has run, with its _watch() and
\* its first _readNew(), which finds size = pos
TInit ==
  /\ variant \in Variants
  /\ QueueIdle
  /\ \E ex \in BOOLEAN, d \in InitContents :
       logFile = [exists |-> ex, ino |-> 1, data |-> IF ex THEN d ELSE <<>>]
  /\ inode = FileTail_start(logFile).inode
  /\ pos = FileTail_start(logFile).pos
  /\ watch = FileTail_start(logFile).watch
  /\ passes = FileTail_start(logFile).passes
  /\ startPos = SizeAtStart(logFile)
  /\ buf = <<>>
  /\ notifs = 0 /\ delivered = <<>>
  /\ disturbed = "no" /\ nWrite = 0
  /\ Started /\ logStatted = TRUE
  /\ OthersIdle

\* the fs.watch callback, with the synchronous part of the _readNew it calls
Notify ==
  /\ watch = "open" /\ notifs > 0
  /\ Len(passes) < MaxPasses
  /\ notifs' = notifs - 1
  /\ IF ~logFile.exists
     THEN /\ IF variant = "part000"
             THEN inode' = Null /\ pos' = 0
             ELSE UNCHANGED <<inode, pos>>
          /\ UNCHANGED passes
     ELSE LET reset == inode = Null \/ logFile.ino # inode
              r == readNewEnter(IF reset THEN 0 ELSE pos, Len(logFile.data), passes)
          IN /\ inode' = logFile.ino
             /\ pos' = r.pos
             /\ passes' = r.passes
  /\ UNCHANGED <<logFile, buf, watch, delivered, startPos, disturbed, nWrite>>
  /\ UNCHANGED <<qvars, svars, ovars>>

\* the stream of passes[i] opens LOG_PATH and reads its range; a missing file
\* makes the for-await throw, which _readNew swallows
ReadFile ==
  /\ \E i \in 1..Len(passes) :
       /\ passes[i].pc = "open"
       /\ IF ~logFile.exists
          THEN passes' = RemoveAt(passes, i)
          ELSE LET c == SubSeq(logFile.data, passes[i].from + 1,
                               Min(passes[i].size, Len(logFile.data)))
               IN passes' = [passes EXCEPT ![i].chunk = c,
                                           ![i].pc = IF c = <<>> THEN "end" ELSE "data"]
  /\ UNCHANGED <<logFile, pos, inode, buf, watch, notifs, delivered,
                 startPos, disturbed, nWrite>>
  /\ UNCHANGED <<qvars, svars, ovars>>

\* one iteration of the for-await loop of passes[i]
DeliverChunk ==
  /\ \E i \in 1..Len(passes) :
       /\ passes[i].pc = "data"
       /\ LET r == SplitLines(buf \o passes[i].chunk, <<>>)
          IN /\ buf' = r.buf
             /\ delivered' = delivered \o r.lines
       /\ passes' = [passes EXCEPT ![i].pc = "end", ![i].chunk = <<>>]
  /\ UNCHANGED <<logFile, pos, inode, watch, notifs, startPos, disturbed, nWrite>>
  /\ UNCHANGED <<qvars, svars, ovars>>

\* the for-await loop of passes[i] ends: this.pos = st.size
EndPass ==
  /\ \E i \in 1..Len(passes) :
       /\ passes[i].pc = "end"
       /\ pos' = passes[i].size
       /\ passes' = RemoveAt(passes, i)
  /\ UNCHANGED <<logFile, inode, buf, watch, notifs, delivered,
                 startPos, disturbed, nWrite>>
  /\ UNCHANGED <<qvars, svars, ovars>>

\* ---- the writer of the log (fail2ban, logrotate) ----
Changed ==
  /\ nWrite' = nWrite + 1
  /\ notifs' = IF watch = "open" THEN notifs + 1 ELSE notifs

\* a whole line, the start of a line, or blanks ending a line
AppendChunks == {<<nWrite + 1, NL>>, <<nWrite + 1>>, <<SP, NL>>}

AppendLog ==
  /\ nWrite < MaxWrites /\ logFile.exists
  /\ \E c \in AppendChunks : logFile' = [logFile EXCEPT !.data = @ \o c]
  /\ Changed
  /\ UNCHANGED <<pos, inode, buf, watch, passes, delivered, startPos, disturbed>>
  /\ UNCHANGED <<qvars, svars, ovars>>

TruncateLog ==
  /\ nWrite < MaxWrites /\ logFile.exists /\ logFile.data # <<>>
  /\ logFile' = [logFile EXCEPT !.data = <<>>]
  /\ disturbed' = IF disturbed = "no" THEN "truncated" ELSE disturbed
  /\ Changed
  /\ UNCHANGED <<pos, inode, buf, watch, passes, delivered, startPos>>
  /\ UNCHANGED <<qvars, svars, ovars>>

\* rotation: the file is renamed away, then a new one is created
UnlinkLog ==
  /\ nWrite < MaxWrites /\ logFile.exists
  /\ logFile' = [logFile EXCEPT !.exists = FALSE, !.data = <<>>]
  /\ disturbed' = "rotated"
  /\ Changed
  /\ UNCHANGED <<pos, inode, buf, watch, passes, delivered, startPos>>
  /\ UNCHANGED <<qvars, svars, ovars>>

CreateLog ==
  /\ nWrite < MaxWrites /\ ~logFile.exists
  /\ logFile' = [exists |-> TRUE, ino |-> logFile.ino + 1, data |-> <<>>]
  /\ disturbed' = "rotated"
  /\ Changed
  /\ UNCHANGED <<pos, inode, buf, watch, passes, delivered, startPos>>
  /\ UNCHANGED <<qvars, svars, ovars>>

\* rotation seen as one change: the file is renamed away and a new, empty
\* one is created before the tail's callback runs
RotateLog ==
  /\ nWrite < MaxWrites /\ logFile.exists
  /\ logFile' = [exists |-> TRUE, ino |-> logFile.ino + 1, data |-> <<>>]
  /\ disturbed' = "rotated"
  /\ Changed
  /\ UNCHANGED <<pos, inode, buf, watch, passes, delivered, startPos>>
  /\ UNCHANGED <<qvars, svars, ovars>>

TNext ==
  \/ Notify \/ ReadFile \/ DeliverChunk \/ EndPass
  \/ AppendLog \/ TruncateLog \/ UnlinkLog \/ CreateLog \/ RotateLog

TailSpec == TInit /\ [][TNext]_vars

(* ------------------------------- actions ------------------------------- *)
QInit ==
  /\ variant \in Variants
  /\ concurrency \in 1..MaxConcurrency
  /\ now = 1
  /\ stateFile = NoFile
  /\ State = loadState(NoFile)
  /\ tmpCache = {}
  /\ q = <<>>
  /\ running = 0
  /\ jobs = <<>>
  /\ immediates = 0
  /\ lastOp = NoOp
  /\ hist = [a \in Addr |-> "none"]
  /\ nPush = 0 /\ nTick = 0 /\ nRestart = 0
  /\ TailIdle
  /\ Started /\ logStatted = FALSE
  /\ OthersIdle

\* q.push(ip), called by the line callback (or for --scan-ip)
PushUpTo(n) ==
  /\ nPush < n
  /\ \E ip \in Addr, mk \in {"ok", "fail"} :
       /\ Assign(ScanQueue_push(QS, ip, now, mk))
       /\ lastOp' = [op |-> "push", ip |-> ip,
                     admitted |-> ~pushRejects(QS, ip, now),
                     active |-> Active(QS, ip),
                     early |-> now < RetryOf(State.retryAfter, ip),
                     mkfail |-> FALSE]
  /\ nPush' = nPush + 1
  /\ UNCHANGED <<variant, concurrency, now, hist, nTick, nRestart>>
  /\ UNCHANGED <<tvars, svars, ovars>>

Push == PushUpTo(MaxPushes)

\* a setImmediate(() => this._next()) callback runs
RunImmediate ==
  /\ immediates > 0
  /\ \E mk \in {"ok", "fail"} :
       Assign(ScanQueue_next([QS EXCEPT !.immediates = @ - 1], now, mk))
  /\ lastOp' = [NoOp EXCEPT !.op = "next"]
  /\ UNCHANGED <<variant, concurrency, now, hist, nPush, nTick, nRestart>>
  /\ UNCHANGED <<tvars, svars, ovars>>

\* performScan of jobs[i] returns or throws; the finally block runs
Complete ==
  \E i \in 1..Len(jobs) :
    /\ Assign(ScanQueue_finally(QS, i, now))
    /\ lastOp' = [NoOp EXCEPT !.op = "complete", !.ip = jobs[i].ip,
                              !.mkfail = (jobs[i].pc = "fin")]
    /\ hist' = [hist EXCEPT ![jobs[i].ip] = "done"]
    /\ UNCHANGED <<variant, concurrency, now, nPush, nTick, nRestart>>
    /\ UNCHANGED <<tvars, svars, ovars>>

TickSteps == {1, RESCAN_TTL_SEC}

Tick ==
  /\ nTick < MaxTicks
  /\ \E d \in TickSteps : now' = now + d
  /\ nTick' = nTick + 1
  /\ UNCHANGED <<variant, concurrency, State, tmpCache, q, running, jobs,
                 immediates, stateFile, lastOp, hist, nPush, nRestart>>
  /\ UNCHANGED <<tvars, svars, ovars>>

\* the process stops (exit or crash) and is started again: the module-level
\* code runs loadState() and constructs a new ScanQueue
Restart ==
  /\ nRestart < MaxRestarts
  /\ State' = loadState(stateFile)
  /\ tmpCache' = {}
  /\ q' = <<>>
  /\ running' = 0
  /\ jobs' = <<>>
  /\ immediates' = 0
  /\ hist' = [a \in Addr |-> IF hist[a] = "none" THEN "none" ELSE "restarted"]
  /\ nRestart' = nRestart + 1
  /\ lastOp' = [NoOp EXCEPT !.op = "restart"]
  /\ UNCHANGED <<variant, concurrency, now, stateFile, nPush, nTick>>
  /\ UNCHANGED <<tvars, svars, ovars>>

QNext == Push \/ RunImmediate \/ Complete \/ Tick \/ Restart

Spec == QInit /\ [][QNext]_vars

\* The same queue under the scheduling the event loop gives: setImmediate
\* callbacks run, and every scan terminates.
FairPush == PushUpTo(MaxFairPushes)

FairNext == FairPush \/ RunImmediate \/ Complete \/ Tick \/ Restart

FairSpec ==
  QInit /\ [][FairNext]_vars /\ WF_vars(RunImmediate) /\ WF_vars(Complete)

\* The queue of a process that is never stopped, under the same scheduling.
LiveNext == FairPush \/ RunImmediate \/ Complete \/ Tick

NoShutdownSpec ==
  QInit /\ [][LiveNext]_vars /\ WF_vars(RunImmediate) /\ WF_vars(Complete)

(* ------------------------- startup of the process ---------------------- *)
\* state files a previous run can have left: none, one written by push
\* during a scan, one written by the finally block at time 1
StartFiles ==
  {NoFile,
   [kind |-> "json", seen |-> <<"a1">>, retryAfter |-> EmptyMap],
   [kind |-> "json", seen |-> <<"a1">>,
    retryAfter |-> MapPut(EmptyMap, "a1", 1 + RESCAN_TTL_SEC)]}

StartTimes == {1, 1 + 2 * RESCAN_TTL_SEC}

SInit ==
  /\ variant \in Variants
  /\ concurrency \in 1..MaxConcurrency
  /\ now \in StartTimes
  /\ stateFile \in StartFiles
  /\ State = loadState(NoFile)
  /\ tmpCache = {} /\ q = <<>> /\ running = 0 /\ jobs = <<>> /\ immediates = 0
  /\ lastOp = NoOp /\ hist = [a \in Addr |-> "none"]
  /\ nPush = 0 /\ nTick = 0 /\ nRestart = 0
  /\ \E ex \in BOOLEAN :
       logFile = [exists |-> ex, ino |-> 1, data |-> IF ex THEN <<9, NL>> ELSE <<>>]
  /\ pos = 0 /\ inode = Null /\ buf = <<>> /\ watch = "none"
  /\ notifs = 0 /\ passes = <<>> /\ delivered = <<>>
  /\ startPos = 0 /\ disturbed = "no" /\ nWrite = 0
  /\ mainPc = "checkTools" /\ checkPc = 0 /\ exitCode = NotExited
  /\ toolsPresent \in SUBSET {"nmap", "dig", "whois"}
  /\ singleIp \in {NoIp} \cup Addr
  /\ logStatted = FALSE
  /\ OthersIdle

\* (async function checkTools() {...})(): runs up to its first await
MainCheckTools ==
  /\ mainPc = "checkTools"
  /\ checkPc' = NextCheck(1)
  /\ mainPc' = "loadState"
  /\ UNCHANGED <<exitCode, toolsPresent, singleIp, logStatted>>
  /\ UNCHANGED <<qvars, tvars, ovars>>

\* const STATE = loadState()
MainLoadState ==
  /\ mainPc = "loadState"
  /\ State' = loadState(stateFile)
  /\ mainPc' = "main"
  /\ UNCHANGED <<variant, concurrency, now, tmpCache, q, running, jobs,
                 immediates, stateFile, lastOp, hist, nPush, nTick, nRestart>>
  /\ UNCHANGED <<checkPc, exitCode, toolsPresent, singleIp, logStatted>>
  /\ UNCHANGED <<tvars, ovars>>

\* if (SINGLE_IP) { new ScanQueue(..).push(SINGLE_IP); return; }
MainScanIp ==
  /\ mainPc = "main" /\ singleIp # NoIp
  /\ \E mk \in {"ok", "fail"} : Assign(ScanQueue_push(QS, singleIp, now, mk))
  /\ lastOp' = [op |-> "push", ip |-> singleIp,
                admitted |-> ~pushRejects(QS, singleIp, now),
                active |-> Active(QS, singleIp),
                early |-> now < RetryOf(State.retryAfter, singleIp),
                mkfail |-> FALSE]
  /\ nPush' = nPush + 1
  /\ mainPc' = "done"
  /\ UNCHANGED <<variant, concurrency, now, hist, nTick, nRestart>>
  /\ UNCHANGED <<checkPc, exitCode, toolsPresent, singleIp, logStatted>>
  /\ UNCHANGED <<tvars, ovars>>

\* const q = new ScanQueue(..); const tail = new FileTail(LOG_PATH, ..)
MainTail ==
  /\ mainPc = "main" /\ singleIp = NoIp
  /\ logStatted' = TRUE
  /\ inode' = FileTail_start(logFile).inode
  /\ pos' = FileTail_start(logFile).pos
  /\ watch' = FileTail_start(logFile).watch
  /\ passes' = FileTail_start(logFile).passes
  /\ startPos' = SizeAtStart(logFile)
  /\ mainPc' = "done"
  /\ UNCHANGED <<logFile, buf, notifs, delivered, disturbed, nWrite>>
  /\ UNCHANGED <<checkPc, exitCode, toolsPresent, singleIp>>
  /\ UNCHANGED <<qvars, ovars>>

\* the which(t) awaited by checkTools settles; the event loop runs it only
\* after the module-level code has returned
WhichResult ==
  /\ mainPc = "done" /\ exitCode = NotExited
  /\ checkPc \in 1..Len(tools)
  /\ IF tools[checkPc] \in toolsPresent
     THEN checkPc' = NextCheck(checkPc + 1) /\ UNCHANGED exitCode
     ELSE exitCode' = PREREQ_EXIT /\ UNCHANGED checkPc
  /\ UNCHANGED <<mainPc, toolsPresent, singleIp, logStatted>>
  /\ UNCHANGED <<qvars, tvars, ovars>>

Alive == mainPc = "done" /\ exitCode = NotExited

\* a Ban line read by the tail reaches q.push
LinePush == Alive /\ watch = "open" /\ PushUpTo(MaxStartPushes)
SRunImmediate == Alive /\ RunImmediate
SComplete == Alive /\ Complete

SNext ==
  \/ MainCheckTools \/ MainLoadState \/ MainScanIp \/ MainTail
  \/ WhichResult \/ LinePush \/ SRunImmediate \/ SComplete

StartupSpec == SInit /\ [][SNext]_vars

(* -------------------- loadState and the first pushes ------------------- *)
LoadSeens == {<<>>, <<"a1">>}
LoadRetries == {EmptyMap, MapPut(EmptyMap, "a1", 1 + RESCAN_TTL_SEC)}

\* contents the state file can have when the program starts
LoadFiles ==
  {[kind |-> k] : k \in {"missing", "corrupt", "jsonnull", "scalar"}}
  \cup {[kind |-> "json", seen |-> sn, retryAfter |-> ra] :
          sn \in LoadSeens, ra \in LoadRetries}
  \cup {[kind |-> "json_badseen", retryAfter |-> ra] : ra \in LoadRetries}
  \cup {[kind |-> "json_badretry", seen |-> sn] : sn \in LoadSeens}
  \cup {[kind |-> "json_nullretry", seen |-> sn] : sn \in LoadSeens}

LInit ==
  /\ variant \in Variants
  /\ concurrency \in 1..MaxConcurrency
  /\ now = 1
  /\ stateFile \in LoadFiles
  /\ State = loadState(NoFile)
  /\ tmpCache = {} /\ q = <<>> /\ running = 0 /\ jobs = <<>> /\ immediates = 0
  /\ lastOp = NoOp /\ hist = [a \in Addr |-> "none"]
  /\ nPush = 0 /\ nTick = 0 /\ nRestart = 0
  /\ TailIdle
  /\ mainPc = "loadState" /\ checkPc = Len(tools) + 1 /\ exitCode = NotExited
  /\ toolsPresent = {"nmap", "dig", "whois"} /\ singleIp = NoIp
  /\ logStatted = FALSE
  /\ OthersIdle

\* const next = STATE.retryAfter[ip] || 0 throws a TypeError when
\* STATE.retryAfter is null
pushThrows(s) == s.State.retryAfter = JsNull

\* q.push(ip) on the loaded state
LoadedPush == mainPc = "main" /\ ~pushThrows(QS) /\ PushUpTo(MaxStartPushes)

LoadedPushThrows ==
  /\ mainPc = "main" /\ pushThrows(QS)
  /\ nPush < MaxStartPushes
  /\ \E ip \in Addr : lastOp' = [NoOp EXCEPT !.op = "throw", !.ip = ip]
  /\ nPush' = nPush + 1
  /\ UNCHANGED <<variant, concurrency, now, State, tmpCache, q, running, jobs,
                 immediates, stateFile, hist, nTick, nRestart>>
  /\ UNCHANGED <<tvars, svars, ovars>>

LNext == MainLoadState \/ LoadedPush \/ LoadedPushThrows

LoadSpec == LInit /\ [][LNext]_vars

(* ------------------------------- shutdown ------------------------------ *)
GRACE_MS == 10000
POLL_MS == 500

\* delays after which a setTimeout(wait, 500) callback runs: on time, or
\* late by more than the whole grace period (a stalled event loop)
TimerDelays == {POLL_MS, GRACE_MS + 1}

\* the daemon after startup: prerequisites found, tail watching an empty log
ShInit ==
  /\ variant \in Variants
  /\ concurrency \in 1..MaxConcurrency
  /\ now = 1
  /\ stateFile = NoFile
  /\ State = loadState(NoFile)
  /\ tmpCache = {} /\ q = <<>> /\ running = 0 /\ jobs = <<>> /\ immediates = 0
  /\ lastOp = NoOp /\ hist = [a \in Addr |-> "none"]
  /\ nPush = 0 /\ nTick = 0 /\ nRestart = 0
  /\ logFile = [exists |-> TRUE, ino |-> 1, data |-> <<>>]
  /\ pos = FileTail_start(logFile).pos
  /\ inode = FileTail_start(logFile).inode
  /\ watch = FileTail_start(logFile).watch
  /\ passes = FileTail_start(logFile).passes
  /\ buf = <<>> /\ notifs = 0 /\ delivered = <<>>
  /\ startPos = 0 /\ disturbed = "no" /\ nWrite = 0
  /\ Started /\ logStatted = TRUE
  /\ NoSignal /\ PerformIdle /\ ExtractIdle

\* the test of wait(): a plausible wrong version confuses the grace period
\* with the poll interval
shutdownDue_pollInterval(run, ms) == run = 0 \/ ms >= POLL_MS
\* if (q.running === 0 || Date.now() - start > 10000) process.exit(0)
shutdownDue(run, ms) == run = 0 \/ ms > GRACE_MS

\* SIGINT or SIGTERM: shutdown() closes the tail, takes start = Date.now()
\* and calls wait() once
Signal ==
  /\ Alive /\ sigPc = "none"
  /\ watch' = "closed"
  /\ sigPc' = "signalled"
  /\ msSince' = 0
  /\ exitCode' = IF shutdownDue(running, 0) THEN 0 ELSE NotExited
  /\ UNCHANGED <<logFile, pos, inode, buf, notifs, passes, delivered,
                 startPos, disturbed, nWrite>>
  /\ UNCHANGED <<mainPc, checkPc, toolsPresent, singleIp, logStatted>>
  /\ UNCHANGED <<qvars, pvars, evars>>

\* the callback of setTimeout(wait, 500) runs
TimerPoll ==
  /\ Alive /\ sigPc = "signalled"
  /\ \E d \in TimerDelays :
       /\ msSince' = msSince + d
       /\ exitCode' = IF shutdownDue(running, msSince + d) THEN 0 ELSE NotExited
  /\ UNCHANGED <<mainPc, checkPc, toolsPresent, singleIp, logStatted, sigPc>>
  /\ UNCHANGED <<qvars, tvars, pvars, evars>>

ShNext == LinePush \/ SRunImmediate \/ SComplete \/ Signal \/ TimerPoll

\* timers are run by the event loop; a scan need never terminate
ShutdownSpec == ShInit /\ [][ShNext]_vars /\ WF_vars(TimerPoll)

(* ------------------------------ performScan ---------------------------- *)
\* paths are sequences of components; / and /tmp always exist
OUT_ROOT == <<"out">>
DateDir == OUT_ROOT \o <<"date">>
TMP == <<"tmp">>
FALLBACK == TMP \o <<"fail2scan">>
BaseName == "ip_ts"
Undefined == <<>>

Prefix(p, k) == SubSeq(p, 1, k)
Exists(tree, p) == p = TMP \/ p \in tree
Writable(perm, p) == IF Prefix(p, 1) = TMP THEN perm.fallback ELSE perm.primary

\* fs.mkdirSync(p, {recursive: true}): returns the first directory it had to
\* create, undefined when p exists already; throws when it may not create
mkdirSync(tree, perm, p) ==
  LET missing == {k \in 1..Len(p) : ~Exists(tree, Prefix(p, k))}
      first == CHOOSE k \in missing : \A j \in missing : k <= j
  IN  IF missing = {} THEN [ok |-> TRUE, first |-> Undefined, tree |-> tree]
      ELSE IF Writable(perm, p)
        THEN [ok |-> TRUE, first |-> Prefix(p, first),
              tree |-> tree \cup {Prefix(p, k) : k \in missing}]
        ELSE [ok |-> FALSE, first |-> Undefined, tree |-> tree]

\* x || y for a path or undefined
OrElse(x, y) == IF x = Undefined THEN y ELSE x

\* daemon.js returns fs.mkdirSync(..) || p, part_000 returns p
safeMkdirSyncWithFallback(var, tree, perm, p) ==
  LET m1 == mkdirSync(tree, perm, p)
      m2 == mkdirSync(tree, perm, FALLBACK)
  IN  IF m1.ok
        THEN [ok |-> TRUE, tree |-> m1.tree,
              path |-> IF var = "daemon" THEN OrElse(m1.first, p) ELSE p]
      ELSE IF m2.ok
        THEN [ok |-> TRUE, tree |-> m2.tree,
              path |-> IF var = "daemon" THEN OrElse(m2.first, FALLBACK)
                       ELSE FALLBACK]
      ELSE [ok |-> FALSE, tree |-> tree, path |-> Undefined]

\* outDir = path.join(safeMkdirSyncWithFallback(path.dirname(outDir)),
\*                    path.basename(outDir)); fs.mkdirSync(outDir, ..)
makeOutDir(var, tree, perm) ==
  LET r == safeMkdirSyncWithFallback(var, tree, perm, DateDir)
      d == r.path \o <<BaseName>>
      m == mkdirSync(r.tree, perm, d)
  IN  IF r.ok /\ m.ok THEN [ok |-> TRUE, tree |-> m.tree, outDir |-> d]
      ELSE [ok |-> FALSE, tree |-> r.tree, outDir |-> <<>>]

Outcomes == {"exit0", "nonzero", "nospawn"}

\* spawnNmap: 'close' resolves {code, ok: code === 0}, 'error' rejects
spawnNmap(o) ==
  IF o = "nospawn" THEN [settled |-> "rejected", ok |-> FALSE]
  ELSE [settled |-> "resolved", ok |-> o = "exit0"]

\* runCmdCapture catches every failure of execFile
runCmdCapture(o) == [ok |-> o = "exit0"]

\* a step that lets the failure to spawn nmap leave performScan
nmapStep_throws(o) ==
  IF spawnNmap(o).settled = "resolved"
  THEN [pc |-> "dig", entry |-> [ok |-> TRUE]]
  ELSE [pc |-> "thrown", entry |-> [ok |-> FALSE]]
\* try { await spawnNmap(..); summary.cmds.nmap = {ok: true, ..} }
\* catch (e) { summary.cmds.nmap = {ok: false, ..} }
nmapStep(o) ==
  IF spawnNmap(o).settled = "resolved"
  THEN [pc |-> "dig", entry |-> [ok |-> TRUE]]
  ELSE [pc |-> "dig", entry |-> [ok |-> FALSE]]

\* trees a call can find: nothing, only the root, the root and the date
\* directory; each with or without /tmp/fail2scan
StartTrees ==
  {t \cup f : t \in {{}, {OUT_ROOT}, {OUT_ROOT, DateDir}},
              f \in {{}, {FALLBACK}}}

PInit ==
  /\ variant \in Variants
  /\ QueueIdle /\ TailIdle /\ Started /\ logStatted = FALSE
  /\ NoSignal /\ ExtractIdle
  /\ psPc = "mkdir"
  /\ fsTree \in StartTrees
  /\ fsPerm \in [primary : BOOLEAN, fallback : BOOLEAN]
  /\ toolOut \in [ToolNames -> Outcomes]
  /\ invoked = <<>> /\ summaryCmds = EmptyMap /\ artifacts = {} /\ outDir = <<>>

PsIp == "a1"

\* lines 142-154 of part_000, 54-57 of daemon.js
PsMkdir ==
  /\ psPc = "mkdir"
  /\ LET r == makeOutDir(variant, fsTree, fsPerm) IN
       /\ fsTree' = r.tree
       /\ outDir' = r.outDir
       /\ IF r.ok THEN psPc' = "nmap" /\ UNCHANGED <<State, stateFile>>
          ELSE IF variant = "part000"
            THEN /\ psPc' = "returned"
                 /\ State' = [State EXCEPT !.retryAfter =
                                MapPut(@, PsIp, now + QUICK_RETRY_SEC)]
                 /\ stateFile' = saveState(State')
          ELSE psPc' = "thrown" /\ UNCHANGED <<State, stateFile>>
  /\ UNCHANGED <<fsPerm, toolOut, invoked, summaryCmds, artifacts>>
  /\ UNCHANGED <<variant, concurrency, now, tmpCache, q, running, jobs,
                 immediates, lastOp, hist, nPush, nTick, nRestart>>
  /\ UNCHANGED <<tvars, svars, hvars, evars>>

PsNmap ==
  /\ psPc = "nmap"
  /\ invoked' = Append(invoked, "nmap")
  /\ artifacts' = artifacts \cup {<<outDir, "nmap.txt">>}
  /\ summaryCmds' = MapPut(summaryCmds, "nmap", nmapStep(toolOut["nmap"]).entry)
  /\ psPc' = nmapStep(toolOut["nmap"]).pc
  /\ UNCHANGED <<fsTree, fsPerm, toolOut, outDir>>
  /\ UNCHANGED <<qvars, tvars, svars, hvars, evars>>

PsDig ==
  /\ psPc = "dig"
  /\ invoked' = Append(invoked, "dig")
  /\ artifacts' = artifacts \cup {<<outDir, "dig.txt">>}
  /\ summaryCmds' = MapPut(summaryCmds, "dig", runCmdCapture(toolOut["dig"]))
  /\ psPc' = "whois"
  /\ UNCHANGED <<fsTree, fsPerm, toolOut, outDir>>
  /\ UNCHANGED <<qvars, tvars, svars, hvars, evars>>

PsWhois ==
  /\ psPc = "whois"
  /\ invoked' = Append(invoked, "whois")
  /\ artifacts' = artifacts \cup {<<outDir, "whois.txt">>}
  /\ summaryCmds' = MapPut(summaryCmds, "whois", runCmdCapture(toolOut["whois"]))
  /\ psPc' = "summary"
  /\ UNCHANGED <<fsTree, fsPerm, toolOut, outDir>>
  /\ UNCHANGED <<qvars, tvars, svars, hvars, evars>>

\* fs.writeFileSync(path.join(outDir, 'summary.json'), ..)
PsSummary ==
  /\ psPc = "summary"
  /\ artifacts' = artifacts \cup {<<outDir, "summary.json">>}
  /\ psPc' = "written"
  /\ UNCHANGED <<fsTree, fsPerm, toolOut, invoked, summaryCmds, outDir>>
  /\ UNCHANGED <<qvars, tvars, svars, hvars, evars>>

PNext == PsMkdir \/ PsNmap \/ PsDig \/ PsWhois \/ PsSummary

PerformSpec == PInit /\ [][PNext]_vars

(* --------------------------- extractIpFromLine ------------------------- *)
\* a line is a sequence of one-character strings
IsDigit(c) == c \in {"0", "1", "2", "3", "4", "5", "6", "7", "8", "9"}
IsHex(c) ==
  IsDigit(c) \/ c \in {"a", "b", "c", "d", "e", "f", "A", "B", "C", "D", "E", "F"}
\* \w, over the characters the lines are made of
IsWord(c) == IsHex(c) \/ c \in {"x", "_"}
WordAt(l, k) == k \in 1..Len(l) /\ IsWord(l[k])
\* \b between l[k] and l[k+1]
Boundary(l, k) == WordAt(l, k) # WordAt(l, k + 1)
CharAt(l, k, c) == k \in 1..Len(l) /\ l[k] = c
AllDigits(l, i, n) ==
  i + n - 1 <= Len(l) /\ \A k \in i..(i + n - 1) : IsDigit(l[k])
AllHex(l, i, n) ==
  i + n - 1 <= Len(l) /\ \A k \in i..(i + n - 1) : IsHex(l[k])
Largest(S) == CHOOSE n \in S : \A k \in S : k <= n
NoEnd == 0

\* the rest of /(?:\d{1,3}\.){3}\d{1,3}\b/ from position i, g groups matched:
\* quantifiers are greedy, a shorter repetition is tried when the rest fails.
\* The value is the index of the last character matched, NoEnd for no match.
RECURSIVE v4Rest(_, _, _)
v4Rest(l, i, g) ==
  IF g < 3
  THEN LET ok == {n \in 1..3 : /\ AllDigits(l, i, n)
                               /\ CharAt(l, i + n, ".")
                               /\ v4Rest(l, i + n + 1, g + 1) # NoEnd}
       IN IF ok = {} THEN NoEnd ELSE v4Rest(l, i + Largest(ok) + 1, g + 1)
  ELSE LET ok == {n \in 1..3 : AllDigits(l, i, n) /\ Boundary(l, i + n - 1)}
       IN IF ok = {} THEN NoEnd ELSE i + Largest(ok) - 1

\* the rest of /([0-9a-fA-F]{0,4}:){2,7}[0-9a-fA-F]{0,4}\b/ from position i
\* with g groups matched: one more group is tried first
RECURSIVE v6Rest(_, _, _)
v6Rest(l, i, g) ==
  LET more == {n \in 0..4 : /\ g < 7
                            /\ AllHex(l, i, n)
                            /\ CharAt(l, i + n, ":")
                            /\ v6Rest(l, i + n + 1, g + 1) # NoEnd}
      last == {n \in 0..4 : /\ g >= 2
                            /\ AllHex(l, i, n)
                            /\ Boundary(l, i + n - 1)}
  IN  IF more # {} THEN v6Rest(l, i + Largest(more) + 1, g + 1)
      ELSE IF last # {} THEN i + Largest(last) - 1
      ELSE NoEnd

NoMatch == <<>>

\* line.match(re)[0]: the match at the leftmost position that has one
matchV4(l) ==
  LET starts == {i \in 1..Len(l) : Boundary(l, i - 1) /\ v4Rest(l, i, 0) # NoEnd}
      i0 == CHOOSE i \in starts : \A k \in starts : i <= k
  IN  IF starts = {} THEN NoMatch ELSE SubSeq(l, i0, v4Rest(l, i0, 0))
matchV6(l) ==
  LET starts == {i \in 1..Len(l) : Boundary(l, i - 1) /\ v6Rest(l, i, 0) # NoEnd}
      i0 == CHOOSE i \in starts : \A k \in starts : i <= k
  IN  IF starts = {} THEN NoMatch ELSE SubSeq(l, i0, v6Rest(l, i0, 0))

\* the function with the two patterns tried in the other order
extractIpFromLine_v6First(l) ==
  IF matchV6(l) # NoMatch THEN matchV6(l)
  ELSE IF matchV4(l) # NoMatch THEN matchV4(l)
  ELSE NoMatch
extractIpFromLine(l) ==
  IF matchV4(l) # NoMatch THEN matchV4(l)
  ELSE IF matchV6(l) # NoMatch THEN matchV6(l)
  ELSE NoMatch

MaxSegments == 3

\* pieces of log lines: two IPv4 addresses, an IPv6 address, separators and
\* characters that join or split them
Segments ==
  {<<"1", ".", "2", ".", "3", ".", "4">>, <<"5", "6", ".", "7", ".", "8", ".", "9">>,
   <<"f", "e", ":", ":", "1">>,
   <<" ">>, <<"x">>, <<"1">>, <<".">>, <<":">>}

RECURSIVE Concat(_)
Concat(ss) == IF ss = <<>> THEN <<>> ELSE Head(ss) \o Concat(Tail(ss))

Lines == {Concat(ss) : ss \in UNION {[1..n -> Segments] : n \in 1..MaxSegments}}

EInit ==
  /\ variant \in Variants
  /\ QueueIdle /\ TailIdle /\ Started /\ logStatted = FALSE
  /\ NoSignal /\ PerformIdle
  /\ logLine \in Lines
  /\ extracted = [done |-> FALSE, ip |-> <<>>]

Extract ==
  /\ ~extracted.done
  /\ extracted' = [done |-> TRUE, ip |-> extractIpFromLine(logLine)]
  /\ UNCHANGED logLine
  /\ UNCHANGED <<qvars, tvars, svars, hvars, pvars>>

ENext == Extract

ExtractSpec == EInit /\ [][ENext]_vars

(* ------------------------------ properties ----------------------------- *)
InQ(a) == \E i \in 1..Len(q) : q[i] = a
Executing(a) == \E i \in 1..Len(jobs) : jobs[i].ip = a
PushOf(a) == lastOp.op = "push" /\ lastOp.ip = a

\* C1: a push of an address that is already queued or running (a second push
\* before the first scan of the address has completed) is a no-op: it is not
\* admitted, so one scan of the address is executed, not two.
C1_SecondPushIsNoOp ==
  \A a \in Addr : (PushOf(a) /\ lastOp.active) => ~lastOp.admitted

\* C2: once a scan of a has completed in this process, a push(a) made before
\* retryAfter[a], with a no longer queued or running, is rejected.
C2_RejectedDuringCooldown ==
  \A a \in Addr :
    (PushOf(a) /\ hist[a] = "done" /\ ~lastOp.active /\ lastOp.early)
      => ~lastOp.admitted

\* C3: after a scan of a has completed, a push(a) made at or after
\* retryAfter[a] (a not queued or running) is admitted, and a queued address
\* leaves the pending list: _next starts its scan (or the process restarts).
C3_AdmittedAfterTTL ==
  \A a \in Addr :
    (PushOf(a) /\ hist[a] # "none" /\ ~lastOp.active /\ ~lastOp.early)
      => (lastOp.admitted /\ (InQ(a) \/ Executing(a)))

\* C3, with the execution of the admitted scan: the admission above always
\* holds, and an address in the pending list always leaves it.
C3_RescanAfterTTL ==
  /\ []C3_AdmittedAfterTTL
  /\ \A a \in Addr : InQ(a) ~> ~InQ(a)

C3_Witness ==
  \E a \in Addr :
    /\ PushOf(a) /\ hist[a] = "done" /\ ~lastOp.active /\ ~lastOp.early
    /\ lastOp.admitted /\ Executing(a)

\* C4: the number of executing scans is the running counter, and it stays
\* within 0..concurrency.
C4_RunningBounded ==
  /\ running >= 0
  /\ running <= concurrency
  /\ Len(jobs) = running

C4_Witness ==
  /\ lastOp.op = "push" /\ lastOp.admitted
  /\ running = concurrency /\ Len(q) > 0

\* C5: after every admitted push and after every scan completion the state
\* file holds the in-memory state: the same address set and retry-after map.
FileEqualsMemory ==
  /\ stateFile.kind = "json"
  /\ SetElems(stateFile.seen) = SetElems(State.seen)
  /\ stateFile.retryAfter = State.retryAfter

C5_FileEqualsMemory ==
  ((lastOp.op = "push" /\ lastOp.admitted) \/ lastOp.op = "complete")
    => FileEqualsMemory

\* C6: after a restart, a push(a) made before the reloaded retryAfter[a] of an
\* address whose scan completed before the restart is rejected.
C6_RejectedAfterRestart ==
  \A a \in Addr :
    (PushOf(a) /\ hist[a] = "restarted" /\ lastOp.early) => ~lastOp.admitted

(* -------------------------- properties of FileTail --------------------- *)
Quiescent == notifs = 0 /\ passes = <<>>
Occurrences(sq, x) == Cardinality({i \in 1..Len(sq) : sq[i] = x})
IsPrefix(a, b) == Len(a) <= Len(b) /\ a = SubSeq(b, 1, Len(a))
\* the complete non-blank lines of the file from offset from
LinesFrom(from) ==
  SplitLines(SubSeq(logFile.data, from + 1, Len(logFile.data)), <<>>).lines

\* C7: after a truncation to zero length, once every notification has been
\* handled and every read pass has ended, each complete non-blank line
\* appended since the truncation has been passed to the callback exactly once.
C7_TruncateThenAppend ==
  (disturbed = "truncated" /\ watch = "open" /\ Quiescent)
    => \A i \in 1..Len(LinesFrom(0)) :
         Occurrences(delivered, LinesFrom(0)[i]) = 1

\* C8: at most one _readNew pass is in progress at any time (a notification
\* that arrives during a pass starts its pass only after the current one).
C8_ReadsSerialized == Len(passes) <= 1

\* C9: with appends only, the lines passed to the callback are, in file
\* order and without repetition, the complete non-blank lines appended after
\* start; none is missing once all notifications and passes are done.
C9_ExactlyOnceInOrder ==
  (disturbed = "no" /\ watch = "open")
    => /\ IsPrefix(delivered, LinesFrom(startPos))
       /\ Quiescent => delivered = LinesFrom(startPos)

(* --------------------------- properties of startup --------------------- *)
TailConstructed == logStatted \/ watch # "none"
ScanDispatched == running > 0 \/ \E a \in Addr : hist[a] # "none"

\* C10: when nmap, dig or whois is missing, the log file is never stat'ed or
\* watched and no scan is ever started: the process exits with status 2
\* before the main startup constructs the FileTail or pushes --scan-ip.
C10_ExitBeforeWatching ==
  toolsPresent # {"nmap", "dig", "whois"}
    => (~TailConstructed /\ ~ScanDispatched)

\* C11: after a shutdown signal the process has exited with code 0 only if
\* no scan was running or more than the 10-second grace period had elapsed,
\* no poll leaves it alive once the grace period is over, and it always
\* eventually exits, even if an in-flight scan never terminates.
C11_ExitNotEarly ==
  /\ exitCode = 0 => (running = 0 \/ msSince > GRACE_MS)
  /\ (sigPc = "signalled" /\ exitCode = NotExited)
       => msSince <= GRACE_MS

C11_GracefulExit ==
  /\ []C11_ExitNotEarly
  /\ (sigPc = "signalled") ~> (exitCode = 0)

\* the grace period ran out with a scan still running
C11_Witness ==
  exitCode = 0 /\ running > 0 /\ msSince = GRACE_MS + POLL_MS

\* C12: started with --scan-ip a, once the startup code has run the program
\* has dispatched exactly one scan, of a, and has not constructed the tail,
\* whatever the state file loaded at startup held.
C12_ScanIpScansOnce ==
  (singleIp # NoIp /\ mainPc = "done")
    => /\ ~TailConstructed
       /\ (Executing(singleIp) \/ hist[singleIp] # "none")
       /\ Len(jobs) + Len(q) <= 1
       /\ \A a \in Addr \ {singleIp} : ~Executing(a) /\ hist[a] = "none"

\* C13: once the output directory exists, whatever nmap, dig and whois do
\* (exit 0, exit non-zero, fail to spawn), performScan leaves only after
\* having run the three tools in order and written summary.json with an
\* entry for each of them; it ends early only when the directory could not
\* be made, before any tool has run.
C13_AllToolsRun ==
  /\ psPc \in {"thrown", "returned"} => invoked = <<>>
  /\ psPc \in {"dig", "whois", "summary", "written"}
       => "nmap" \in DOMAIN summaryCmds
  /\ psPc = "written"
       => /\ invoked = <<"nmap", "dig", "whois">>
          /\ DOMAIN summaryCmds = ToolNames
          /\ <<outDir, "summary.json">> \in artifacts

C13_Witness ==
  /\ psPc = "written"
  /\ toolOut["nmap"] = "nospawn" /\ toolOut["dig"] = "nonzero"
  /\ toolOut["whois"] = "nospawn"

\* C14: when a scan whose output directory could be created neither under
\* the primary root nor under /tmp/fail2scan has ended, the retry-after
\* recorded for its address is less than RESCAN_TTL_SEC away.
C14_ShortCooldownAfterMkdirFailure ==
  \A a \in Addr :
    (lastOp.op = "complete" /\ lastOp.ip = a /\ lastOp.mkfail)
      => RetryOf(State.retryAfter, a) < now + RESCAN_TTL_SEC

\* C15: when directories can be created under the primary root, every
\* artifact of performScan is in <root>/<date>/<address>_<timestamp>/,
\* whether the root and the date directory existed before or not.
C15_ArtifactsUnderDateDir ==
  (fsPerm.primary /\ psPc \notin {"idle", "mkdir"})
    => /\ outDir = DateDir \o <<BaseName>>
       /\ \A f \in artifacts : f[1] = DateDir \o <<BaseName>>

\* C20: the nmap entry of summary.cmds has ok = true exactly when nmap
\* exited with code 0; a non-zero exit is recorded as ok = false.
C20_NmapOkIffExitZero ==
  "nmap" \in DOMAIN summaryCmds
    => (summaryCmds["nmap"].ok <=> toolOut["nmap"] = "exit0")

\* what the file held when start() ran, while it is only appended to
PreExisting == SubSeq(logFile.data, 1, startPos)

\* C16: when the watched file exists at start, the offset taken is its size
\* and, as long as the file is neither truncated nor rotated, the offset
\* never goes back before it and nothing that was in the file before start
\* is passed to the callback.
C16_NoReplayOfHistory ==
  (disturbed = "no" /\ watch = "open")
    => /\ pos >= startPos
       /\ \A i \in 1..Len(delivered), j \in 1..Len(PreExisting) :
            PreExisting[j] # NL =>
              \A k \in 1..Len(delivered[i]) : delivered[i][k] # PreExisting[j]

C16_Witness ==
  /\ disturbed = "no" /\ watch = "open"
  /\ startPos = 3 /\ Len(delivered) > 0

\* the text s is four groups of 1 to 3 digits separated by dots
RECURSIVE Split(_, _)
Split(s, c) ==
  IF \A k \in 1..Len(s) : s[k] # c THEN <<s>>
  ELSE LET k0 == CHOOSE k \in 1..Len(s) : s[k] = c /\ \A j \in 1..(k - 1) : s[j] # c
       IN <<SubSeq(s, 1, k0 - 1)>> \o Split(SubSeq(s, k0 + 1, Len(s)), c)
IsV4Text(s) ==
  /\ Len(Split(s, ".")) = 4
  /\ \A k \in 1..4 : Len(Split(s, ".")[k]) \in 1..3
                      /\ \A j \in 1..Len(Split(s, ".")[k]) : IsDigit(Split(s, ".")[k][j])
\* the text s is 3 to 8 groups of 0 to 4 hex digits separated by colons
IsV6Text(s) ==
  /\ Len(Split(s, ":")) \in 3..8
  /\ \A k \in 1..Len(Split(s, ":")) :
       /\ Len(Split(s, ":")[k]) \in 0..4
       /\ \A j \in 1..Len(Split(s, ":")[k]) : IsHex(Split(s, ":")[k][j])
\* l[i..j] is an occurrence of the pattern between two word boundaries
OccursV4(l, i, j) ==
  /\ i <= j /\ Boundary(l, i - 1) /\ Boundary(l, j)
  /\ IsV4Text(SubSeq(l, i, j))
OccursV6(l, i, j) ==
  /\ i <= j /\ Boundary(l, i - 1) /\ Boundary(l, j)
  /\ IsV6Text(SubSeq(l, i, j))
ContainsV4(l) == \E i, j \in 1..Len(l) : OccursV4(l, i, j)
ContainsV6(l) == \E i, j \in 1..Len(l) : OccursV6(l, i, j)
IsFirstV4(l, m) ==
  \E i, j \in 1..Len(l) :
    /\ OccursV4(l, i, j) /\ m = SubSeq(l, i, j)
    /\ \A i2, j2 \in 1..Len(l) : OccursV4(l, i2, j2) => i <= i2

\* C17: for a line that contains an occurrence of the IPv4 pattern and an
\* occurrence of the IPv6 pattern, extractIpFromLine returns the leftmost
\* IPv4 occurrence, wherever the two stand relative to each other.
C17_Ipv4First ==
  (extracted.done /\ ContainsV4(logLine) /\ ContainsV6(logLine))
    => IsFirstV4(logLine, extracted.ip)

\* an IPv6 occurrence stands before the IPv4 one
C17_Witness ==
  /\ extracted.done
  /\ logLine = <<"f", "e", ":", ":", "1", " ", "1", ".", "2", ".", "3", ".", "4">>
  /\ extracted.ip = <<"1", ".", "2", ".", "3", ".", "4">>

\* C18: the step that ends a scan of a (performScan returned or threw) sets
\* retryAfter[a] to now + RESCAN_TTL_SEC in memory and in the state file,
\* the file being written while a is still in the in-flight set; and in no
\* reachable state has an address completed a scan without having a
\* retry-after recorded, in memory and on disk.
C18_CompletionStep ==
  \A a \in Addr :
    (lastOp'.op = "complete" /\ lastOp'.ip = a /\ Len(jobs') < Len(jobs))
      => /\ RetryOf(State'.retryAfter, a) = now + RESCAN_TTL_SEC
         /\ stateFile'.kind = "json"
         /\ RetryOf(stateFile'.retryAfter, a) = now + RESCAN_TTL_SEC
         /\ SetHas(State.seen, a) => SetHas(stateFile'.seen, a)

C18_Recorded ==
  \A a \in Addr :
    hist[a] # "none"
      => /\ a \in DOMAIN State.retryAfter
         /\ stateFile.kind = "json" /\ a \in DOMAIN stateFile.retryAfter

C18_RetryAfterBeforeRemoval == []C18_Recorded /\ [][C18_CompletionStep]_vars

\* a scan has completed after pushes interleaved with it
C18_Witness ==
  \E a \in Addr :
    /\ lastOp.op = "complete" /\ lastOp.ip = a
    /\ ~SetHas(State.seen, a)
    /\ RetryOf(State.retryAfter, a) = now + RESCAN_TTL_SEC
    /\ nPush >= 2

\* C19: no address appears more than once among the pending list and the
\* executing jobs together.
C19_NoDuplicateInFlight ==
  \A a \in Addr :
    Cardinality({i \in 1..Len(q) : q[i] = a})
      + Cardinality({i \in 1..Len(jobs) : jobs[i].ip = a}) <= 1

\* C21: after a rotation, once every notification has been handled and
\* every read pass has ended, the tail has adopted the inode of the new file
\* and every complete non-blank line of the new file has been passed to the
\* callback, also when a pass over the old file was in progress when the
\* rotation was noticed.
C21_RotationReadFromStart ==
  (disturbed = "rotated" /\ logFile.exists /\ watch = "open" /\ Quiescent)
    => /\ inode = logFile.ino
       /\ \A i \in 1..Len(LinesFrom(0)) :
            Occurrences(delivered, LinesFrom(0)[i]) >= 1

\* the text joins bytes of two file contents: each write leaves its own
\* number, appends to one line leave consecutive numbers, and between two
\* numbers that skip one the file was truncated or replaced
JoinsTwoContents(l) ==
  \E k \in 1..(Len(l) - 1) :
    l[k] # SP /\ l[k + 1] # SP /\ l[k + 1] > l[k] + 1

\* C25: once the file has been truncated or rotated, no line passed to the
\* callback is made of bytes left in the partial-line buffer from the old
\* content followed by bytes of the new content.
C25_NoStaleBufferPrefix ==
  disturbed # "no"
    => \A i \in 1..Len(delivered) : ~JoinsTwoContents(delivered[i])

\* C22: scans start in admission order: an admitted address goes to the end
\* of the pending list, nothing else is ever inserted or reordered, and the
\* scan a step starts is that of the head of the list (of the address just
\* pushed when the list was empty).
C22_Step ==
  /\ Len(jobs') > Len(jobs)
       => /\ Len(jobs') = Len(jobs) + 1
          /\ jobs'[Len(jobs')].ip = (IF q # <<>> THEN Head(q) ELSE lastOp'.ip)
  /\ \/ q' = q
     \/ q # <<>> /\ q' = Tail(q)
     \/ \E a \in Addr : q' = Append(q, a) \/ q' = Tail(Append(q, a))
     \/ lastOp'.op = "restart" /\ q' = <<>>

C22_FifoStart == [][C22_Step]_vars

\* a dispatch has started the head of a list that held two addresses
C22_Witness ==
  /\ lastOp.op = "next" /\ Len(jobs) = 1 /\ q # <<>>
  /\ jobs[1].ip # q[1]

\* C24: while the process runs, the pending list is never non-empty with a
\* free slot and no _next scheduled, and, scans terminating, every address
\* in the pending list leaves it by being started.
C24_NoStall == (q # <<>> /\ running < concurrency) => immediates > 0

C24_EventuallyExecuted ==
  /\ []C24_NoStall
  /\ \A a \in Addr : InQ(a) ~> (~InQ(a) /\ (Executing(a) \/ hist[a] = "done"))

\* an address waits in the list while every slot is taken
C24_Witness == q # <<>> /\ running = concurrency /\ immediates = 0

\* C23: whatever the state file holds, loadState returns a state whose
\* retry-after map is a map, so that no later push throws; a missing or
\* corrupt file gives the empty state.
C23_LoadStateUsable ==
  /\ mainPc = "main" => State.retryAfter # JsNull
  /\ lastOp.op # "throw"
  /\ (mainPc = "main" /\ nPush = 0 /\ stateFile.kind \in {"missing", "corrupt"})
       => State = [seen |-> <<>>, retryAfter |-> EmptyMap]

====================================================================
